---- MODULE Spec2Model ----
(***************************************************************************)
(* A model of the Paystack wallet service: the auth gate, the key issuer   *)
(* and the wallet ledger, as request handlers acting on the database.      *)
(*                                                                         *)
(* Conventions.                                                            *)
(*  - Time is counted in hours (the smallest expiry unit of a key).        *)
(*  - Random identifiers (key secrets, transaction references, wallet      *)
(*    numbers) are modelled as fresh identifiers: the next unused one.     *)
(*  - A handler is one action.  The record `last` is the request handled   *)
(*    by the step that produced the current state together with the        *)
(*    response sent; status 0 means that no response was sent.             *)
(*  - Database outages are not modelled; schema validation on save is.     *)
(*  - The handlers of the sequential models run from request to response  *)
(*    in one step; the models of concurrent requests split the handlers    *)
(*    that the claims on races are about at their awaits.                  *)
(*    A step that suspends a handler at an await records the request in    *)
(*    `last` with status 0: its response has not been sent yet.            *)
(***************************************************************************)
EXTENDS Integers, Sequences, FiniteSets, TLC

\* ---------------------------------------------------------------- bounds
MaxNow == 2
MaxKeysNow == 1
MaxKeys == 7
MaxTxs == 2
MaxBalance == 3
MaxPresented == 2
MaxAuthKeys == 2
MaxAuthTxs == 1

\* ------------------------------------------------------ program constants
maxKeysAllowed == 5

UserIds == {"u1", "u2"}
PermissionType == {"deposit", "transfer", "read"}
WalletNumbers == <<"1000000000001", "1000000000002">>
UnknownWalletNumber == "9999999999999"
DevPlaceholderSecret == "your_paystack_webhook_secret_here"
LiveWebhookSecret == "whsec_live"

VARIABLES users, wallets, txs, keys, now, webhookSecret, inflight, last

vars == <<users, wallets, txs, keys, now, webhookSecret, inflight, last>>
db == <<users, wallets, txs, keys>>

\* ------------------------------------------------------------ credentials
\* A bearer token is the signed payload {id}; sig tells who signed it and
\* expired whether its 7 day validity has lapsed.
NoToken == [id |-> "", sig |-> "", expired |-> FALSE]
JwtSign(id) == [id |-> id, sig |-> "jwtSecret", expired |-> FALSE]
JwtVerify(token) == token.sig = "jwtSecret" /\ ~token.expired

\* The x-api-key header: 0 when absent, else the presented secret.
NoApiKey == 0
UnknownSecret == MaxKeys + 1
Secret(i) == i
Sha256(secret) == <<"sha256", secret>>

NoCred == [token |-> NoToken, apiKey |-> NoApiKey]
Bearer(u) == [token |-> JwtSign(u), apiKey |-> NoApiKey]
ApiKey(s) == [token |-> NoToken, apiKey |-> s]

\* ------------------------------------------------------------- collections
\* Key.findOne({keyHash}): the index of the key, 0 when there is none.
FindKeyByHash(h) ==
    IF \E i \in 1..Len(keys) : keys[i].keyHash = h
    THEN CHOOSE i \in 1..Len(keys) : keys[i].keyHash = h
    ELSE 0

\* A wallet's userId is an ObjectId; a token, a key and a transaction carry
\* its hex string.  x == y of an ObjectId and a string compares the string
\* with the ObjectId's toString().
ObjectId(hex) == <<"ObjectId", hex>>
toString(oid) == oid[2]
LooseEquals(oid, str) == toString(oid) = str

\* Wallet.findOne({userId}) (the string is cast to an ObjectId) and
\* Wallet.findOne({walletNumber}): a set with the wallet found, empty when
\* there is none.
WalletsOfUser(userId) == {w \in wallets : w.userId = ObjectId(userId)}
WalletsByNumber(n) == {w \in wallets : w.walletNumber = n}

\* Transaction.findOne({reference}): the index, 0 when there is none.
FindTx(reference) ==
    IF \E i \in 1..Len(txs) : txs[i].reference = reference
    THEN CHOOSE i \in 1..Len(txs) : txs[i].reference = reference
    ELSE 0

\* An auth gate that looks at the x-api-key header before the bearer token.
authenticateChecksKeyFirst(c) ==
    IF c.apiKey # NoApiKey
    THEN LET k == FindKeyByHash(Sha256(c.apiKey)) IN
         IF k = 0 \/ keys[k].isRevoked \/ keys[k].expiresAt < now
         THEN [ok |-> FALSE, id |-> "", authType |-> "", key |-> 0]
         ELSE [ok |-> TRUE, id |-> keys[k].userId, authType |-> "api_key", key |-> k]
    ELSE IF c.token # NoToken /\ JwtVerify(c.token)
         THEN [ok |-> TRUE, id |-> c.token.id, authType |-> "jwt", key |-> 0]
         ELSE [ok |-> FALSE, id |-> "", authType |-> "", key |-> 0]


\* ---------------------------------------------------------------- auth gate
\* authenticate without the test of the key's revoked flag.
authenticateIgnoresRevoked(c) ==
    IF c.token # NoToken
    THEN IF JwtVerify(c.token)
         THEN [ok |-> TRUE, id |-> c.token.id, authType |-> "jwt", key |-> 0]
         ELSE [ok |-> FALSE, id |-> "", authType |-> "", key |-> 0]
    ELSE IF c.apiKey # NoApiKey
         THEN LET k == FindKeyByHash(Sha256(c.apiKey)) IN
              IF k = 0 \/ keys[k].expiresAt < now
              THEN [ok |-> FALSE, id |-> "", authType |-> "", key |-> 0]
              ELSE [ok |-> TRUE, id |-> keys[k].userId, authType |-> "api_key", key |-> k]
         ELSE [ok |-> FALSE, id |-> "", authType |-> "", key |-> 0]

authenticate(c) ==
    IF c.token # NoToken
    THEN IF JwtVerify(c.token)
         THEN [ok |-> TRUE, id |-> c.token.id, authType |-> "jwt", key |-> 0]
         ELSE [ok |-> FALSE, id |-> "", authType |-> "", key |-> 0]
    ELSE IF c.apiKey # NoApiKey
         THEN LET k == FindKeyByHash(Sha256(c.apiKey)) IN
              IF k = 0 \/ keys[k].isRevoked \/ keys[k].expiresAt < now
              THEN [ok |-> FALSE, id |-> "", authType |-> "", key |-> 0]
              ELSE [ok |-> TRUE, id |-> keys[k].userId, authType |-> "api_key", key |-> k]
         ELSE [ok |-> FALSE, id |-> "", authType |-> "", key |-> 0]

\* The response record kept in `last`: the request (op, cred, body) and the
\* response (status, its error code or message, and the data returned);
\* queried tells whether the handler called the payment provider, and
\* provider is the answer it got.
RespData(op, c, body, status, code, data) ==
    [op |-> op, cred |-> c, body |-> body, status |-> status, code |-> code,
     data |-> data, queried |-> FALSE, provider |-> <<>>]
Queried(r, answer) == [r EXCEPT !.queried = TRUE, !.provider = answer]
Resp(op, c, body, status, code) == RespData(op, c, body, status, code, <<>>)

\* A JSON body value: a number, or a value that is no number.
Num(n) == [type |-> "number", v |-> n]
Undefined == [type |-> "undefined", v |-> 0]
Str(n) == [type |-> "string", v |-> n]

NoBody == [none |-> TRUE]

\* ------------------------------------------------------ requests in flight
\* Node handles requests on one thread: a handler runs until it awaits the
\* database and another handler may run before it resumes.  inflight[p] is
\* the handler of connection p: idle, or suspended at the await that pc
\* names, with its request (cred, body) and the documents it has read.
Procs == {"p1", "p2"}
Idle == [pc |-> "idle", cred |-> NoCred, body |-> NoBody, read |-> <<>>]
Suspended(pc, c, body, read) == [pc |-> pc, cred |-> c, body |-> body, read |-> read]

\* ------------------------------------------------------------------- Init
Init ==
    /\ users = {}
    /\ wallets = {}
    /\ txs = <<>>
    /\ keys = <<>>
    /\ now = 0
    /\ webhookSecret \in {"", DevPlaceholderSecret, LiveWebhookSecret}
    /\ inflight = [p \in Procs |-> Idle]
    /\ last = Resp("start", NoCred, NoBody, 0, "")

\* The clock advances by one hour; no request is handled.
Tick ==
    /\ now < MaxNow
    /\ now' = now + 1
    /\ last' = Resp("tick", NoCred, NoBody, 0, "")
    /\ UNCHANGED <<db, webhookSecret, inflight>>

\* --------------------------------------------------------------- sign-in
\* googleAuthService.generateWallet(): a fresh 13-digit wallet number.
generateWallet ==
    LET free == {i \in 1..Len(WalletNumbers) :
                    WalletsByNumber(WalletNumbers[i]) = {}}
    IN WalletNumbers[CHOOSE i \in free : \A j \in free : i <= j]

\* A callback that signs the token without finding or creating the wallet.
GoogleCallbackSignsBeforeWallet(u, google) ==
    /\ UNCHANGED <<txs, keys, now, webhookSecret, inflight>>
    /\ IF google = "ok"
       THEN /\ users' = users \cup {u}
            /\ UNCHANGED wallets
            /\ last' = Resp("callback", NoCred, [user |-> u], 200, "token")
       ELSE /\ last' = Resp("callback", NoCred, [user |-> u], 401, "invalid_grant")
            /\ UNCHANGED <<users, wallets>>

\* GET /auth/google/callback for the Google account of user u, with the
\* outcome of the two calls to Google.
GoogleCallback(u, google) ==
    /\ UNCHANGED <<txs, keys, now, webhookSecret, inflight>>
    /\ IF google = "access_denied"
       THEN /\ last' = Resp("callback", NoCred, [user |-> u], 400, "access_denied")
            /\ UNCHANGED <<users, wallets>>
       ELSE IF google = "invalid_grant"
       THEN /\ last' = Resp("callback", NoCred, [user |-> u], 401, "invalid_grant")
            /\ UNCHANGED <<users, wallets>>
       ELSE IF google = "provider_error"
       THEN /\ last' = Resp("callback", NoCred, [user |-> u], 500, "provider_error")
            /\ UNCHANGED <<users, wallets>>
       ELSE /\ users' = users \cup {u}
            /\ wallets' = IF WalletsOfUser(u) = {}
                          THEN wallets \cup {[walletNumber |-> generateWallet,
                                              balance |-> 0, userId |-> ObjectId(u)]}
                          ELSE wallets
            /\ last' = Resp("callback", NoCred, [user |-> u], 200, "token")

\* A bearer token of user u is in circulation once a callback has answered
\* with one; some tokens are forged or have expired.
IssuedTokens == {JwtSign(u) : u \in users}
BadTokens == {[id |-> "u1", sig |-> "forged", expired |-> FALSE],
              [id |-> "u1", sig |-> "jwtSecret", expired |-> TRUE]}

\* ------------------------------------------------------------- key issuer
\* A string such as "1H" is the sequence of its characters.
IsDigit(ch) == ch \in {"0", "1", "2", "3", "4", "5", "6", "7", "8", "9"}
DigitValue(ch) ==
    CASE ch = "0" -> 0 [] ch = "1" -> 1 [] ch = "2" -> 2 [] ch = "3" -> 3
      [] ch = "4" -> 4 [] ch = "5" -> 5 [] ch = "6" -> 6 [] ch = "7" -> 7
      [] ch = "8" -> 8 [] ch = "9" -> 9

RECURSIVE ParseDigits(_, _)
ParseDigits(s, acc) ==
    IF s = <<>> \/ ~IsDigit(Head(s)) THEN acc
    ELSE ParseDigits(Tail(s), 10 * acc + DigitValue(Head(s)))

\* parseInt: the leading decimal digits, NaN when there are none.
parseInt(s) ==
    IF s = <<>> \/ ~IsDigit(Head(s)) THEN [nan |-> TRUE, v |-> 0]
    ELSE [nan |-> FALSE, v |-> ParseDigits(s, 0)]

\* calculateExpiry(expiry): throws on an unknown unit; an unparsable number
\* gives an invalid Date.  Times are in hours.
calculateExpiry(expiry) ==
    LET unit == IF expiry = <<>> THEN "" ELSE expiry[Len(expiry)]
        value == parseInt(SubSeq(expiry, 1, Len(expiry) - 1))
        date(hours) == [throws |-> FALSE, valid |-> ~value.nan,
                        time |-> now + value.v * hours]
    IN CASE unit = "H" -> date(1)
         [] unit = "D" -> date(24)
         [] unit = "M" -> date(30 * 24)
         [] unit = "Y" -> date(365 * 24)
         [] OTHER -> [throws |-> TRUE, valid |-> FALSE, time |-> 0]

\* keyService.createKey on the key collection ks: the collection with the
\* new key, or a throw (calculateExpiry threw, or Key.create rejected an
\* invalid expiresAt).
createKey(ks, userId, name, permissions, expiry) ==
    LET e == calculateExpiry(expiry)
        key == Secret(Len(ks) + 1)
    IN IF e.throws \/ ~e.valid
       THEN [ok |-> FALSE, keys |-> ks, key |-> 0]
       ELSE [ok |-> TRUE, key |-> key,
             keys |-> Append(ks, [userId |-> userId, keyHash |-> Sha256(key),
                                  name |-> name, permissions |-> permissions,
                                  expiresAt |-> e.time, isRevoked |-> FALSE])]

\* keyService.countActiveKeys
countActiveKeys(userId) ==
    Cardinality({i \in 1..Len(keys) :
        keys[i].userId = userId /\ ~keys[i].isRevoked /\ keys[i].expiresAt > now})

\* KeysCreate with the limit compared by > in place of >=.
KeysCreateLimitOffByOne(c, body) ==
    LET a == authenticate(c) IN
    /\ UNCHANGED <<users, wallets, txs, now, webhookSecret, inflight>>
    /\ IF ~a.ok
       THEN /\ last' = Resp("keys/create", c, body, 401, "unauthorized")
            /\ UNCHANGED keys
       ELSE IF body.name = "" \/ ~body.hasPermissions \/ body.expiry = <<>>
       THEN /\ last' = Resp("keys/create", c, body, 400, "bad_request")
            /\ UNCHANGED keys
       ELSE IF countActiveKeys(a.id) > maxKeysAllowed
       THEN /\ last' = Resp("keys/create", c, body, 403, "limit_exceeded")
            /\ UNCHANGED keys
       ELSE LET r == createKey(keys, a.id, body.name, body.permissions, body.expiry)
            IN /\ keys' = r.keys
               /\ last' = IF r.ok
                          THEN Resp("keys/create", c, body, 201, "created")
                          ELSE Resp("keys/create", c, body, 500, "internal_server_error")

\* POST /keys/create
KeysCreate(c, body) ==
    LET a == authenticate(c) IN
    /\ UNCHANGED <<users, wallets, txs, now, webhookSecret, inflight>>
    /\ IF ~a.ok
       THEN /\ last' = Resp("keys/create", c, body, 401, "unauthorized")
            /\ UNCHANGED keys
       ELSE IF body.name = "" \/ ~body.hasPermissions \/ body.expiry = <<>>
       THEN /\ last' = Resp("keys/create", c, body, 400, "bad_request")
            /\ UNCHANGED keys
       ELSE IF countActiveKeys(a.id) >= maxKeysAllowed
       THEN /\ last' = Resp("keys/create", c, body, 403, "limit_exceeded")
            /\ UNCHANGED keys
       ELSE LET r == createKey(keys, a.id, body.name, body.permissions, body.expiry)
            IN /\ keys' = r.keys
               /\ last' = IF r.ok
                          THEN Resp("keys/create", c, body, 201, "created")
                          ELSE Resp("keys/create", c, body, 500, "internal_server_error")

\* rolloverKey without the test that the key has expired.
rolloverKeyIgnoresExpiry(userId, expiredKey, expiry) ==
    LET h == Sha256(expiredKey)
        found == {i \in 1..Len(keys) :
                    keys[i].userId = userId /\ keys[i].keyHash = h /\ ~keys[i].isRevoked}
    IN IF found = {}
       THEN [ok |-> FALSE, keys |-> keys, key |-> 0]
       ELSE LET i == CHOOSE j \in found : TRUE IN
            createKey([keys EXCEPT ![i].isRevoked = TRUE], userId,
                      keys[i].name, keys[i].permissions, expiry)

\* rolloverKey that leaves the old key as it was.
rolloverKeyKeepsOldKey(userId, expiredKey, expiry) ==
    LET h == Sha256(expiredKey)
        found == {i \in 1..Len(keys) :
                    keys[i].userId = userId /\ keys[i].keyHash = h /\ ~keys[i].isRevoked}
    IN IF found = {}
       THEN [ok |-> FALSE, keys |-> keys, key |-> 0]
       ELSE LET i == CHOOSE j \in found : TRUE IN
            IF keys[i].expiresAt > now
            THEN [ok |-> FALSE, keys |-> keys, key |-> 0]
            ELSE createKey(keys, userId, keys[i].name, keys[i].permissions, expiry)

\* keyService.rolloverKey on the current collection.
rolloverKey(userId, expiredKey, expiry) ==
    LET h == Sha256(expiredKey)
        found == {i \in 1..Len(keys) :
                    keys[i].userId = userId /\ keys[i].keyHash = h /\ ~keys[i].isRevoked}
    IN IF found = {}
       THEN [ok |-> FALSE, keys |-> keys, key |-> 0]
       ELSE LET i == CHOOSE j \in found : TRUE IN
            IF keys[i].expiresAt > now
            THEN [ok |-> FALSE, keys |-> keys, key |-> 0]
            ELSE createKey([keys EXCEPT ![i].isRevoked = TRUE], userId,
                           keys[i].name, keys[i].permissions, expiry)

\* POST /keys/rollover
KeysRollover(c, body) ==
    LET a == authenticate(c) IN
    /\ UNCHANGED <<users, wallets, txs, now, webhookSecret, inflight>>
    /\ IF ~a.ok
       THEN /\ last' = Resp("keys/rollover", c, body, 401, "unauthorized")
            /\ UNCHANGED keys
       ELSE IF body.expired_key_id = NoApiKey \/ body.expiry = <<>>
       THEN /\ last' = Resp("keys/rollover", c, body, 400, "bad_request")
            /\ UNCHANGED keys
       ELSE LET r == rolloverKey(a.id, body.expired_key_id, body.expiry)
            IN /\ keys' = r.keys
               /\ last' = IF r.ok
                          THEN Resp("keys/rollover", c, body, 200, "rolled_over")
                          ELSE Resp("keys/rollover", c, body, 500, "internal_server_error")

\* keyService.revokeKey: the caller's non-revoked key with the secret's hash
\* is marked revoked; a throw when there is none.
revokeKey(userId, apiKey) ==
    LET h == Sha256(apiKey)
        found == {i \in 1..Len(keys) :
                    keys[i].userId = userId /\ keys[i].keyHash = h /\ ~keys[i].isRevoked}
    IN IF found = {}
       THEN [ok |-> FALSE, keys |-> keys, name |-> ""]
       ELSE LET i == CHOOSE j \in found : TRUE IN
            [ok |-> TRUE, keys |-> [keys EXCEPT ![i].isRevoked = TRUE],
             name |-> keys[i].name]

\* KeysRevoke that does not recognise the service's not-found error.
KeysRevokeNotFoundIs500(c, body) ==
    LET a == authenticate(c) IN
    /\ UNCHANGED <<users, wallets, txs, now, webhookSecret, inflight>>
    /\ IF ~a.ok
       THEN /\ last' = Resp("keys/revoke", c, body, 401, "unauthorized")
            /\ UNCHANGED keys
       ELSE IF body.api_key = NoApiKey
       THEN /\ last' = Resp("keys/revoke", c, body, 400, "bad_request")
            /\ UNCHANGED keys
       ELSE LET r == revokeKey(a.id, body.api_key)
            IN /\ keys' = r.keys
               /\ last' = IF r.ok
                          THEN RespData("keys/revoke", c, body, 200, "revoked",
                                        <<r.name>>)
                          ELSE Resp("keys/revoke", c, body, 500, "internal_server_error")

\* POST /keys/revoke
KeysRevoke(c, body) ==
    LET a == authenticate(c) IN
    /\ UNCHANGED <<users, wallets, txs, now, webhookSecret, inflight>>
    /\ IF ~a.ok
       THEN /\ last' = Resp("keys/revoke", c, body, 401, "unauthorized")
            /\ UNCHANGED keys
       ELSE IF body.api_key = NoApiKey
       THEN /\ last' = Resp("keys/revoke", c, body, 400, "bad_request")
            /\ UNCHANGED keys
       ELSE LET r == revokeKey(a.id, body.api_key)
            IN /\ keys' = r.keys
               /\ last' = IF r.ok
                          THEN RespData("keys/revoke", c, body, 200, "revoked",
                                        <<r.name>>)
                          ELSE Resp("keys/revoke", c, body, 404, "not_found")

\* ----------------------------------------------------------- wallet ledger
\* paystackService.generateReference(): a fresh reference.
generateReference == Len(txs) + 1

\* wallet.save(): the document of the same owner is replaced.
SaveWallet(ws, w) == {x \in ws : x.userId # w.userId} \cup {w}

\* DepositStatus without the test that the caller is the payer.
DepositStatusSkipsOwnerTest(c, body, paystack) ==
    LET a == authenticate(c)
        t == FindTx(body.reference)
    IN
    /\ UNCHANGED <<users, wallets, keys, now, webhookSecret, inflight>>
    /\ IF ~a.ok
       THEN /\ last' = Resp("status", c, body, 401, "unauthorized")
            /\ UNCHANGED txs
       ELSE IF t = 0
       THEN /\ last' = Resp("status", c, body, 404, "not_found")
            /\ UNCHANGED txs
       ELSE IF (body.refresh \/ txs[t].status = "pending") /\ paystack.ok
       THEN LET seen == [txs[t] EXCEPT !.status = paystack.status,
                                       !.amount = paystack.amount,
                                       !.paidAt = IF paystack.paid_at # 0
                                                  THEN paystack.paid_at ELSE @]
            IN /\ txs' = IF seen.amount < 0 THEN txs ELSE [txs EXCEPT ![t] = seen]
               /\ last' = Queried(RespData("status", c, body, 200, "ok",
                                           <<seen.reference, seen.status, seen.amount>>),
                                  paystack)
       ELSE LET r == RespData("status", c, body, 200, "ok",
                              <<txs[t].reference, txs[t].status, txs[t].amount>>)
            IN /\ UNCHANGED txs
               /\ last' = IF body.refresh \/ txs[t].status = "pending"
                          THEN Queried(r, paystack) ELSE r

\* Deposit that answers a failed initialization only after saving the
\* Transaction.
DepositSavesBeforeInitializing(c, body, paystack) ==
    LET a == authenticate(c)
        amount == body.amount
    IN
    /\ UNCHANGED <<users, wallets, keys, now, webhookSecret, inflight>>
    /\ IF ~a.ok
       THEN /\ last' = Resp("deposit", c, body, 401, "unauthorized")
            /\ UNCHANGED txs
       ELSE IF amount.type = "undefined" \/ (amount.type = "number" /\ amount.v = 0)
               \/ amount.type # "number" \/ amount.v <= 0
       THEN /\ last' = Resp("deposit", c, body, 400, "invalid_input")
            /\ UNCHANGED txs
       ELSE IF FindTx(generateReference) # 0
       THEN /\ last' = Resp("deposit", c, body, 200, "exists")
            /\ UNCHANGED txs
       ELSE /\ txs' = Append(txs, [reference |-> generateReference,
                                   amount |-> amount.v, type |-> "deposit",
                                   status |-> "pending", userId |-> a.id,
                                   senderId |-> "", receiverId |-> "", paidAt |-> 0])
            /\ last' = IF paystack # "ok"
                       THEN Queried(Resp("deposit", c, body, 402,
                                         "payment_initiation_failed"), paystack)
                       ELSE Queried(Resp("deposit", c, body, 201, "created"), paystack)

\* POST /wallet/deposit; paystack is the outcome of initializeTransaction.
Deposit(c, body, paystack) ==
    LET a == authenticate(c)
        amount == body.amount
    IN
    /\ UNCHANGED <<users, wallets, keys, now, webhookSecret, inflight>>
    /\ IF ~a.ok
       THEN /\ last' = Resp("deposit", c, body, 401, "unauthorized")
            /\ UNCHANGED txs
       ELSE IF amount.type = "undefined" \/ (amount.type = "number" /\ amount.v = 0)
               \/ amount.type # "number" \/ amount.v <= 0
       THEN /\ last' = Resp("deposit", c, body, 400, "invalid_input")
            /\ UNCHANGED txs
       ELSE IF FindTx(generateReference) # 0
       THEN /\ last' = Resp("deposit", c, body, 200, "exists")
            /\ UNCHANGED txs
       ELSE IF paystack # "ok"
       THEN /\ last' = Queried(Resp("deposit", c, body, 402, "payment_initiation_failed"),
                                    paystack)
            /\ UNCHANGED txs
       ELSE /\ txs' = Append(txs, [reference |-> generateReference,
                                   amount |-> amount.v, type |-> "deposit",
                                   status |-> "pending", userId |-> a.id,
                                   senderId |-> "", receiverId |-> "", paidAt |-> 0])
            /\ last' = Queried(Resp("deposit", c, body, 201, "created"), paystack)

\* HMAC-SHA512 of a payload under a secret; <<>> is the absent header.
Hmac(secret, payload) == <<"sha512", secret, payload>>
NoSignature == <<>>

\* PaystackService.verifyWebhookSignature
verifyWebhookSignature(payload, signature) ==
    IF webhookSecret = "" THEN FALSE
    ELSE Hmac(webhookSecret, payload) = signature

\* WebhookEvent that answers 404 when no Transaction has the reference.
WebhookEventUnknownIs404(signature, event) ==
    LET d == event.data
        t == FindTx(d.reference)
        req == [signature |-> signature, event |-> event]
    IN
    IF event.event # "charge.success"
    THEN /\ last' = Resp("webhook", NoCred, req, 200, "ok")
         /\ UNCHANGED <<wallets, txs>>
    ELSE IF t = 0
    THEN /\ last' = Resp("webhook", NoCred, req, 404, "not_found")
         /\ UNCHANGED <<wallets, txs>>
    ELSE LET found == WalletsOfUser(txs[t].userId)
             wallet == CHOOSE w \in found : TRUE
             credited == [wallet EXCEPT !.balance = wallet.balance + d.amount]
         IN
         IF found # {} /\ credited.balance < 0
         THEN /\ last' = Resp("webhook", NoCred, req, 500, "internal_error")
              /\ UNCHANGED <<wallets, txs>>
         ELSE /\ wallets' = IF found # {} THEN SaveWallet(wallets, credited) ELSE wallets
              /\ IF d.amount < 0
                 THEN /\ last' = Resp("webhook", NoCred, req, 500, "internal_error")
                      /\ UNCHANGED txs
                 ELSE /\ txs' = [txs EXCEPT ![t] =
                                   [@ EXCEPT !.status = IF d.status = "success"
                                                        THEN "success" ELSE "failed",
                                             !.amount = d.amount,
                                             !.paidAt = IF d.paid_at # 0
                                                        THEN d.paid_at ELSE @]]
                      /\ last' = Resp("webhook", NoCred, req, 200, "ok")

\* WebhookEvent whose wallet.save() does not validate the balance.
WebhookEventSavesUnvalidated(signature, event) ==
    LET d == event.data
        t == FindTx(d.reference)
        req == [signature |-> signature, event |-> event]
    IN
    IF event.event # "charge.success" \/ t = 0
    THEN /\ last' = Resp("webhook", NoCred, req, 200, "ok")
         /\ UNCHANGED <<wallets, txs>>
    ELSE LET found == WalletsOfUser(txs[t].userId)
             wallet == CHOOSE w \in found : TRUE
             credited == [wallet EXCEPT !.balance = wallet.balance + d.amount]
         IN
         /\ wallets' = IF found # {} THEN SaveWallet(wallets, credited) ELSE wallets
         /\ IF d.amount < 0
            THEN /\ last' = Resp("webhook", NoCred, req, 500, "internal_error")
                 /\ UNCHANGED txs
            ELSE /\ txs' = [txs EXCEPT ![t] =
                              [@ EXCEPT !.status = IF d.status = "success"
                                                   THEN "success" ELSE "failed",
                                        !.amount = d.amount,
                                        !.paidAt = IF d.paid_at # 0
                                                   THEN d.paid_at ELSE @]]
                 /\ last' = Resp("webhook", NoCred, req, 200, "ok")

\* The event part of the webhook handler, once the signature is accepted.
\* A save throws when the schema's min: 0 is violated.
WebhookEvent(signature, event) ==
    LET d == event.data
        t == FindTx(d.reference)
    IN
    IF event.event # "charge.success" \/ t = 0
    THEN /\ last' = Resp("webhook", NoCred, [signature |-> signature, event |-> event],
                         200, "ok")
         /\ UNCHANGED <<wallets, txs>>
    ELSE LET found == WalletsOfUser(txs[t].userId)
             wallet == CHOOSE w \in found : TRUE
             credited == [wallet EXCEPT !.balance = wallet.balance + d.amount]
         IN
         IF found # {} /\ credited.balance < 0
         THEN /\ last' = Resp("webhook", NoCred,
                              [signature |-> signature, event |-> event],
                              500, "internal_error")
              /\ UNCHANGED <<wallets, txs>>
         ELSE /\ wallets' = IF found # {} THEN SaveWallet(wallets, credited) ELSE wallets
              /\ IF d.amount < 0
                 THEN /\ last' = Resp("webhook", NoCred,
                                      [signature |-> signature, event |-> event],
                                      500, "internal_error")
                      /\ UNCHANGED txs
                 ELSE /\ txs' = [txs EXCEPT ![t] =
                                   [@ EXCEPT !.status = IF d.status = "success"
                                                        THEN "success" ELSE "failed",
                                             !.amount = d.amount,
                                             !.paidAt = IF d.paid_at # 0
                                                        THEN d.paid_at ELSE @]]
                      /\ last' = Resp("webhook", NoCred,
                                      [signature |-> signature, event |-> event],
                                      200, "ok")

\* POST /wallet/paystack/webhook
Webhook(signature, event) ==
    /\ UNCHANGED <<users, keys, now, webhookSecret, inflight>>
    /\ IF webhookSecret = "" \/ webhookSecret = DevPlaceholderSecret
       THEN WebhookEvent(signature, event)
       ELSE IF signature = NoSignature
       THEN /\ last' = Resp("webhook", NoCred, [signature |-> signature, event |-> event],
                            400, "invalid_request")
            /\ UNCHANGED <<wallets, txs>>
       ELSE IF ~verifyWebhookSignature(event, signature)
       THEN /\ last' = Resp("webhook", NoCred, [signature |-> signature, event |-> event],
                            400, "invalid_signature")
            /\ UNCHANGED <<wallets, txs>>
       ELSE WebhookEvent(signature, event)

\* A status check without the inner catch: a failure of the verify call is
\* answered 500.
DepositStatusSurfacesProviderError(c, body, paystack) ==
    LET a == authenticate(c)
        t == FindTx(body.reference)
    IN
    /\ UNCHANGED <<users, wallets, keys, now, webhookSecret, inflight>>
    /\ IF ~a.ok
       THEN /\ last' = Resp("status", c, body, 401, "unauthorized")
            /\ UNCHANGED txs
       ELSE IF t = 0
       THEN /\ last' = Resp("status", c, body, 404, "not_found")
            /\ UNCHANGED txs
       ELSE IF txs[t].userId # a.id
       THEN /\ last' = Resp("status", c, body, 403, "forbidden")
            /\ UNCHANGED txs
       ELSE IF (body.refresh \/ txs[t].status = "pending") /\ paystack.ok
       THEN LET seen == [txs[t] EXCEPT !.status = paystack.status,
                                       !.amount = paystack.amount,
                                       !.paidAt = IF paystack.paid_at # 0
                                                  THEN paystack.paid_at ELSE @]
            IN /\ txs' = IF seen.amount < 0 THEN txs ELSE [txs EXCEPT ![t] = seen]
               /\ last' = Queried(RespData("status", c, body, 200, "ok",
                                           <<seen.reference, seen.status, seen.amount>>),
                                  paystack)
       ELSE IF body.refresh \/ txs[t].status = "pending"
       THEN /\ UNCHANGED txs
            /\ last' = Queried(Resp("status", c, body, 500, "internal_error"), paystack)
       ELSE /\ UNCHANGED txs
            /\ last' = RespData("status", c, body, 200, "ok",
                                <<txs[t].reference, txs[t].status, txs[t].amount>>)


\* GET /wallet/deposit/:reference/status; paystack is the outcome of
\* verifyTransaction: ok (with the provider's data) or a throw.
DepositStatus(c, body, paystack) ==
    LET a == authenticate(c)
        t == FindTx(body.reference)
    IN
    /\ UNCHANGED <<users, wallets, keys, now, webhookSecret, inflight>>
    /\ IF ~a.ok
       THEN /\ last' = Resp("status", c, body, 401, "unauthorized")
            /\ UNCHANGED txs
       ELSE IF t = 0
       THEN /\ last' = Resp("status", c, body, 404, "not_found")
            /\ UNCHANGED txs
       ELSE IF txs[t].userId # a.id
       THEN /\ last' = Resp("status", c, body, 403, "forbidden")
            /\ UNCHANGED txs
       ELSE IF (body.refresh \/ txs[t].status = "pending") /\ paystack.ok
       THEN LET seen == [txs[t] EXCEPT !.status = paystack.status,
                                       !.amount = paystack.amount,
                                       !.paidAt = IF paystack.paid_at # 0
                                                  THEN paystack.paid_at ELSE @]
            IN /\ txs' = IF seen.amount < 0 THEN txs ELSE [txs EXCEPT ![t] = seen]
               /\ last' = Queried(RespData("status", c, body, 200, "ok",
                                           <<seen.reference, seen.status, seen.amount>>),
                                  paystack)
       ELSE LET r == RespData("status", c, body, 200, "ok",
                              <<txs[t].reference, txs[t].status, txs[t].amount>>)
            IN /\ UNCHANGED txs
               /\ last' = IF body.refresh \/ txs[t].status = "pending"
                          THEN Queried(r, paystack) ELSE r

\* GET /wallet/balance: no response is sent when the caller has no wallet.
Balance(c) ==
    LET a == authenticate(c)
        hasWallet == WalletsOfUser(a.id)
    IN
    /\ UNCHANGED <<db, now, webhookSecret, inflight>>
    /\ IF ~a.ok
       THEN last' = Resp("balance", c, NoBody, 401, "unauthorized")
       ELSE IF hasWallet # {}
       THEN last' = RespData("balance", c, NoBody, 200, "ok",
                             <<(CHOOSE w \in hasWallet : TRUE).balance>>)
       ELSE last' = Resp("balance", c, NoBody, 0, "")

\* The transfer once the caller's wallet and the funds are found: credit
\* the recipient, debit the caller, record the transaction; each save
\* throws when the schema's min: 0 is violated.
TransferFunds(c, body, userId, hasWallet) ==
    LET amount == body.amount.v
        found == WalletsByNumber(body.wallet_number)
        recipientWallet == CHOOSE w \in found : TRUE
        credited == [recipientWallet EXCEPT !.balance = @ + amount]
        debited == [hasWallet EXCEPT !.balance = @ - amount]
        afterCredit == SaveWallet(wallets, credited)
    IN
    IF found = {}
    THEN /\ last' = Resp("transfer", c, body, 200, "Wallet Number not found")
         /\ UNCHANGED <<wallets, txs>>
    ELSE IF credited.balance < 0
    THEN /\ last' = Resp("transfer", c, body, 500, "internal_error")
         /\ UNCHANGED <<wallets, txs>>
    ELSE IF debited.balance < 0
    THEN /\ last' = Resp("transfer", c, body, 500, "internal_error")
         /\ wallets' = afterCredit
         /\ UNCHANGED txs
    ELSE /\ wallets' = SaveWallet(afterCredit, debited)
         /\ IF amount < 0
            THEN /\ last' = Resp("transfer", c, body, 500, "internal_error")
                 /\ UNCHANGED txs
            ELSE /\ txs' = Append(txs, [reference |-> generateReference,
                                        amount |-> amount, type |-> "transfer",
                                        status |-> "success", userId |-> "",
                                        senderId |-> userId,
                                        receiverId |-> toString(recipientWallet.userId),
                                        paidAt |-> 0])
                 /\ last' = Resp("transfer", c, body, 200, "Transfer completed")

\* Transfer with the self-transfer test made on the recipient's wallet and
\* the funds test turned around.
TransferFundsTestFlipped(c, body) ==
    LET a == authenticate(c)
        userId == a.id
        found == WalletsOfUser(userId)
        hasWallet == CHOOSE w \in found : TRUE
        target == WalletsByNumber(body.wallet_number)
    IN
    /\ UNCHANGED <<users, keys, now, webhookSecret, inflight>>
    /\ IF ~a.ok
       THEN /\ last' = Resp("transfer", c, body, 401, "unauthorized")
            /\ UNCHANGED <<wallets, txs>>
       ELSE IF found = {}
       THEN /\ last' = Resp("transfer", c, body, 0, "")
            /\ UNCHANGED <<wallets, txs>>
       ELSE IF \E w \in target : LooseEquals(w.userId, userId)
       THEN /\ last' = Resp("transfer", c, body, 200, "You cannot transfer to yourself")
            /\ UNCHANGED <<wallets, txs>>
       ELSE IF body.amount.type = "number" /\ hasWallet.balance <= body.amount.v
       THEN TransferFunds(c, body, userId, hasWallet)
       ELSE /\ last' = Resp("transfer", c, body, 200, "Insufficient Balance")
            /\ UNCHANGED <<wallets, txs>>

\* Transfer with the self-transfer test made on the recipient's wallet and
\* the caller debited before the recipient is looked up.
TransferDebitsFirst(c, body) ==
    LET a == authenticate(c)
        userId == a.id
        found == WalletsOfUser(userId)
        hasWallet == CHOOSE w \in found : TRUE
        target == WalletsByNumber(body.wallet_number)
    IN
    /\ UNCHANGED <<users, keys, now, webhookSecret, inflight>>
    /\ IF ~a.ok
       THEN /\ last' = Resp("transfer", c, body, 401, "unauthorized")
            /\ UNCHANGED <<wallets, txs>>
       ELSE IF found = {}
       THEN /\ last' = Resp("transfer", c, body, 0, "")
            /\ UNCHANGED <<wallets, txs>>
       ELSE IF \E w \in target : LooseEquals(w.userId, userId)
       THEN /\ last' = Resp("transfer", c, body, 200, "You cannot transfer to yourself")
            /\ UNCHANGED <<wallets, txs>>
       ELSE IF body.amount.type = "number" /\ hasWallet.balance >= body.amount.v
       THEN IF target = {}
            THEN /\ wallets' = SaveWallet(wallets,
                                 [hasWallet EXCEPT !.balance = @ - body.amount.v])
                 /\ last' = Resp("transfer", c, body, 200, "Wallet Number not found")
                 /\ UNCHANGED txs
            ELSE TransferFunds(c, body, userId, hasWallet)
       ELSE /\ last' = Resp("transfer", c, body, 200, "Insufficient Balance")
            /\ UNCHANGED <<wallets, txs>>

\* A transfer handler without the self-transfer test.
TransferSkipsSelfTest(c, body) ==
    LET a == authenticate(c)
        userId == a.id
        found == WalletsOfUser(userId)
        hasWallet == CHOOSE w \in found : TRUE
    IN
    /\ UNCHANGED <<users, keys, now, webhookSecret, inflight>>
    /\ IF ~a.ok
       THEN /\ last' = Resp("transfer", c, body, 401, "unauthorized")
            /\ UNCHANGED <<wallets, txs>>
       ELSE IF found = {}
       THEN /\ last' = Resp("transfer", c, body, 0, "")
            /\ UNCHANGED <<wallets, txs>>
       ELSE IF body.amount.type = "number" /\ hasWallet.balance >= body.amount.v
       THEN TransferFunds(c, body, userId, hasWallet)
       ELSE /\ last' = Resp("transfer", c, body, 200, "Insufficient Balance")
            /\ UNCHANGED <<wallets, txs>>


\* POST /wallet/transfer: no response is sent when the caller has no wallet.
Transfer(c, body) ==
    LET a == authenticate(c)
        userId == a.id
        found == WalletsOfUser(userId)
        hasWallet == CHOOSE w \in found : TRUE
    IN
    /\ UNCHANGED <<users, keys, now, webhookSecret, inflight>>
    /\ IF ~a.ok
       THEN /\ last' = Resp("transfer", c, body, 401, "unauthorized")
            /\ UNCHANGED <<wallets, txs>>
       ELSE IF found = {}
       THEN /\ last' = Resp("transfer", c, body, 0, "")
            /\ UNCHANGED <<wallets, txs>>
       ELSE IF LooseEquals(hasWallet.userId, userId)
       THEN /\ last' = Resp("transfer", c, body, 200, "You cannot transfer to yourself")
            /\ UNCHANGED <<wallets, txs>>
       ELSE IF body.amount.type = "number" /\ hasWallet.balance >= body.amount.v
       THEN TransferFunds(c, body, userId, hasWallet)
       ELSE /\ last' = Resp("transfer", c, body, 200, "Insufficient Balance")
            /\ UNCHANGED <<wallets, txs>>

\* GET /wallet/transactions: the types, amounts and statuses of the
\* caller's transactions, newest first.
RECURSIVE History(_, _)
History(ts, userId) ==
    IF ts = <<>> THEN <<>>
    ELSE LET t == ts[Len(ts)]
             rest == History(SubSeq(ts, 1, Len(ts) - 1), userId)
         IN IF userId \in {t.userId, t.senderId, t.receiverId}
            THEN <<<<t.type, t.amount, t.status>>>> \o rest
            ELSE rest

Transactions(c) ==
    LET a == authenticate(c) IN
    /\ UNCHANGED <<db, now, webhookSecret, inflight>>
    /\ IF ~a.ok
       THEN last' = Resp("transactions", c, NoBody, 401, "unauthorized")
       ELSE last' = RespData("transactions", c, NoBody, 200, "ok", History(txs, a.id))

\* ------------------------------------------------- requests of the key model
\* The key model follows the keys that user u1 creates with a bearer token;
\* u1 and u2 roll over and revoke.  Of the secrets issued, the first
\* MaxPresented are presented again, and one secret that was never issued.
\* The clock runs to MaxKeysNow, past the expiry of a key created at 0.
Presented(ks) ==
    {Secret(i) : i \in 1..(IF Len(ks) < MaxPresented THEN Len(ks) ELSE MaxPresented)}
        \cup {UnknownSecret}

KeyCreds == {Bearer(u) : u \in users}
CreatorCreds == {Bearer(u) : u \in users \cap {"u1"}}

CreateBodies ==
    {[name |-> "svc", hasPermissions |-> TRUE, permissions |-> {"read"}, expiry |-> e] :
        e \in {<<"1", "H">>, <<"1", "X">>, <<"H">>, <<>>}}
    \cup {[name |-> "", hasPermissions |-> TRUE, permissions |-> {"read"},
           expiry |-> <<"1", "H">>],
          [name |-> "svc", hasPermissions |-> FALSE, permissions |-> {},
           expiry |-> <<"1", "H">>]}
RolloverBodies ==
    {[expired_key_id |-> s, expiry |-> e] :
        s \in Presented(keys) \cup {NoApiKey}, e \in {<<"1", "H">>, <<"1", "X">>}}
RevokeBodies == {[api_key |-> s] : s \in Presented(keys) \cup {NoApiKey}}

GoogleOutcomes == {"ok", "access_denied", "invalid_grant", "provider_error"}

InitDev == Init /\ webhookSecret = ""

KeysTick == now < MaxKeysNow /\ Tick
KeysSignIn == \E u \in UserIds : GoogleCallback(u, "ok")
KeysCreateReq ==
    \E c \in CreatorCreds, b \in CreateBodies : Len(keys) < MaxKeys /\ KeysCreate(c, b)
KeysRolloverReq ==
    \E c \in KeyCreds, b \in RolloverBodies : Len(keys) < MaxKeys /\ KeysRollover(c, b)
KeysRevokeReq == \E c \in KeyCreds, b \in RevokeBodies : KeysRevoke(c, b)

NextKeys == KeysTick \/ KeysSignIn \/ KeysCreateReq \/ KeysRolloverReq \/ KeysRevokeReq

SpecKeys == InitDev /\ [][NextKeys]_vars

\* ---------------------------------------------- requests of the ledger model
\* The ledger model follows two users with bearer tokens under a configured
\* webhook secret: u1 deposits, the provider confirms, both ask for status,
\* balance and history, and both transfer.
InitLive == Init /\ webhookSecret = LiveWebhookSecret

LedgerCreds == {Bearer(u) : u \in users}
PayerCreds == {Bearer(u) : u \in users \cap {"u1"}}

DepositBodies ==
    {[amount |-> a] : a \in {Num(1), Num(0), Num(0 - 1), Str(1), Undefined}}
UnknownReference == MaxTxs + 2
ChargeSuccess(r, st, a) ==
    [event |-> "charge.success",
     data |-> [reference |-> r, status |-> st, amount |-> a,
               paid_at |-> IF st = "success" THEN 1 ELSE 0]]
\* Signed events of the provider for the known references, one for an
\* unknown reference, one of another type, and two that are not the
\* provider's.
WebhookCalls ==
    {<<Hmac(LiveWebhookSecret, e), e>> :
        e \in {ChargeSuccess(r, st, a) :
                  r \in 1..Len(txs), st \in {"success", "failed"}, a \in {1, 0 - 1}}
              \cup {ChargeSuccess(UnknownReference, "success", 1),
                    [ChargeSuccess(1, "success", 1) EXCEPT !.event = "transfer.success"]}}
    \cup {<<NoSignature, ChargeSuccess(1, "success", 1)>>,
          <<Hmac("forged", ChargeSuccess(1, "success", 1)), ChargeSuccess(1, "success", 1)>>}
\* The balance the payer of the event's transaction would reach.
WouldReach(event) ==
    LET t == FindTx(event.data.reference) IN
    IF t = 0 \/ WalletsOfUser(txs[t].userId) = {} THEN 0
    ELSE (CHOOSE w \in WalletsOfUser(txs[t].userId) : TRUE).balance + event.data.amount
VerifyFails == [ok |-> FALSE, status |-> "pending", amount |-> 0, paid_at |-> 0]
VerifyData(st) ==
    [ok |-> TRUE, status |-> st, amount |-> 1, paid_at |-> IF st = "success" THEN 1 ELSE 0]
\* The payer asks for each of its references, refreshed or not, under each
\* answer of the provider; the other user and an unknown reference once.
StatusCalls ==
    {<<c, [reference |-> r, refresh |-> f], p>> :
        c \in PayerCreds, r \in 1..Len(txs), f \in BOOLEAN,
        p \in {VerifyFails} \cup {VerifyData(st) : st \in {"pending", "success", "failed"}}}
    \cup {<<c, [reference |-> r, refresh |-> FALSE], VerifyData("success")>> :
            c \in LedgerCreds, r \in {1, UnknownReference}}
TransferBodies ==
    {[amount |-> a, wallet_number |-> n] :
        a \in {Num(1), Num(MaxBalance + 1)},
        n \in {WalletNumbers[1], WalletNumbers[2], UnknownWalletNumber}}

LedgerSignIn == \E u \in UserIds, g \in {"ok", "invalid_grant"} : GoogleCallback(u, g)
DepositReq ==
    \E c \in PayerCreds, b \in DepositBodies, p \in {"ok", "fail"} :
        Len(txs) < MaxTxs /\ Deposit(c, b, p)
WebhookReq ==
    \E call \in WebhookCalls :
        WouldReach(call[2]) <= MaxBalance /\ Webhook(call[1], call[2])
DepositStatusReq == \E call \in StatusCalls : DepositStatus(call[1], call[2], call[3])
BalanceReq == \E c \in LedgerCreds : Balance(c)
TransferReq ==
    \E c \in LedgerCreds, b \in TransferBodies : Len(txs) <= MaxTxs /\ Transfer(c, b)
TransactionsReq == \E c \in LedgerCreds : Transactions(c)

NextLedger ==
    \/ LedgerSignIn \/ DepositReq \/ WebhookReq \/ DepositStatusReq
    \/ BalanceReq \/ TransferReq \/ TransactionsReq

SpecLedger == InitLive /\ [][NextLedger]_vars

\* --------------------------------------------- requests of the webhook model
\* The webhook model follows deposits and their confirmations under each
\* setting of the webhook secret: unset, the placeholder of the sample
\* environment, and a real secret.  Each event arrives unsigned, signed
\* under the configured secret, and signed under another.
WebhookEvents ==
    {ChargeSuccess(r, "success", 1) : r \in (1..Len(txs)) \cup {UnknownReference}}
Signatures(e) == {NoSignature, Hmac(webhookSecret, e), Hmac("forged", e)}
WebhookAnyReq ==
    \E e \in WebhookEvents : \E sig \in Signatures(e) :
        WouldReach(e) <= MaxBalance /\ Webhook(sig, e)

NextWebhook == LedgerSignIn \/ DepositReq \/ WebhookAnyReq

SpecWebhook == Init /\ [][NextWebhook]_vars

\* --------------------------------------------------- the status model
\* The payer signs in, deposits, and asks for the status of each of its
\* references and of an unknown one, refreshed or not, under each answer
\* of the provider: a failure, or a status with the amount and payment
\* time that the provider has recorded.
VerifyAnswers ==
    {VerifyFails}
    \cup {[ok |-> TRUE, status |-> st, amount |-> a,
           paid_at |-> IF st = "success" THEN 2 ELSE 0] :
            st \in {"pending", "success", "failed"}, a \in {1, 2}}
StatusAnyCalls ==
    {<<c, [reference |-> r, refresh |-> f], p>> :
        c \in PayerCreds, r \in (1..Len(txs)) \cup {UnknownReference},
        f \in BOOLEAN, p \in VerifyAnswers}
StatusSignIn == GoogleCallback("u1", "ok")
StatusDeposit ==
    \E c \in PayerCreds : Len(txs) < MaxTxs /\ Deposit(c, [amount |-> Num(1)], "ok")
StatusAnyReq == \E call \in StatusAnyCalls : DepositStatus(call[1], call[2], call[3])

NextStatus == StatusSignIn \/ StatusDeposit \/ StatusAnyReq

SpecStatus == InitLive /\ [][NextStatus]_vars

\* ------------------------------------------------ requests of the auth model
\* The auth model follows user u1, who holds a bearer token and up to
\* MaxAuthKeys read-only keys, on every authenticated endpoint; credentials
\* that are absent or bad are tried on the balance.
HolderCreds ==
    {Bearer(u) : u \in users \cap {"u1"}} \cup {ApiKey(s) : s \in Presented(keys)}
BadCreds == {NoCred} \cup {[token |-> t, apiKey |-> NoApiKey] : t \in BadTokens}
\* Requests that carry both headers: a token that was issued, is forged or
\* has expired, with the secret of a key or an unknown one.
BothCreds ==
    {[token |-> t, apiKey |-> s] :
        t \in IssuedTokens \cup BadTokens, s \in Presented(keys)}
ReadOnlyKey ==
    [name |-> "svc", hasPermissions |-> TRUE, permissions |-> {"read"},
     expiry |-> <<"1", "H">>]

AuthSignIn == \E g \in GoogleOutcomes : GoogleCallback("u1", g)
AuthCreate == \E c \in HolderCreds : Len(keys) < MaxAuthKeys /\ KeysCreate(c, ReadOnlyKey)
AuthRollover ==
    \E c \in HolderCreds, s \in Presented(keys) :
        Len(keys) < MaxAuthKeys
        /\ KeysRollover(c, [expired_key_id |-> s, expiry |-> <<"1", "H">>])
AuthRevoke == \E c \in HolderCreds, s \in Presented(keys) : KeysRevoke(c, [api_key |-> s])
AuthDeposit ==
    \E c \in HolderCreds : Len(txs) < MaxAuthTxs /\ Deposit(c, [amount |-> Num(1)], "ok")
AuthStatus ==
    \E c \in HolderCreds :
        DepositStatus(c, [reference |-> 1, refresh |-> FALSE], VerifyData("success"))
AuthBalance == \E c \in HolderCreds \cup BadCreds \cup BothCreds : Balance(c)
AuthTransfer ==
    \E c \in HolderCreds :
        Transfer(c, [amount |-> Num(1), wallet_number |-> WalletNumbers[1]])
AuthTransactions == \E c \in HolderCreds : Transactions(c)

NextAuth ==
    \/ Tick \/ AuthSignIn \/ AuthCreate \/ AuthRollover \/ AuthRevoke
    \/ AuthDeposit \/ AuthStatus \/ AuthBalance \/ AuthTransfer \/ AuthTransactions

SpecAuth == InitDev /\ [][NextAuth]_vars

\* ------------------------------------------- concurrent sign-in callbacks
\* GET /auth/google/callback as the steps between its awaits, run by the
\* handler of connection p.
\*
\* The code and the profile are exchanged with Google, then User.findOne is
\* awaited: the handler remembers whether the user was found.
CallbackStart(p, u, google) ==
    /\ inflight[p].pc = "idle"
    /\ UNCHANGED <<db, now, webhookSecret>>
    /\ IF google = "ok"
       THEN /\ inflight' = [inflight EXCEPT ![p] =
                              Suspended("user_read", NoCred, [user |-> u], <<u \in users>>)]
            /\ last' = Resp("callback", NoCred, [user |-> u], 0, "")
       ELSE /\ UNCHANGED inflight
            /\ last' = Resp("callback", NoCred, [user |-> u], 401, "invalid_grant")

\* User.create for a user that was not found, user.save() for one that was.
\* The email of a user is unique: a second create for the account throws.
CallbackSaveUser(p) ==
    LET h == inflight[p]
        u == h.body.user
    IN
    /\ h.pc = "user_read"
    /\ UNCHANGED <<wallets, txs, keys, now, webhookSecret>>
    /\ IF ~h.read[1] /\ u \in users
       THEN /\ inflight' = [inflight EXCEPT ![p] = Idle]
            /\ last' = Resp("callback", NoCred, h.body, 500, "database_error")
            /\ UNCHANGED users
       ELSE /\ users' = users \cup {u}
            /\ inflight' = [inflight EXCEPT ![p].pc = "user_saved"]
            /\ last' = Resp("callback", NoCred, h.body, 0, "")

\* Wallet.findOne: with a wallet found the token is signed and the response
\* sent; otherwise the handler goes on to create one.
CallbackFindWallet(p) ==
    LET h == inflight[p] IN
    /\ h.pc = "user_saved"
    /\ UNCHANGED <<db, now, webhookSecret>>
    /\ IF WalletsOfUser(h.body.user) # {}
       THEN /\ inflight' = [inflight EXCEPT ![p] = Idle]
            /\ last' = Resp("callback", NoCred, h.body, 200, "token")
       ELSE /\ inflight' = [inflight EXCEPT ![p].pc = "wallet_missing"]
            /\ last' = Resp("callback", NoCred, h.body, 0, "")

\* A Wallet.create that ignores the unique index on userId.
CallbackCreateWalletNoIndex(p) ==
    LET h == inflight[p] IN
    /\ h.pc = "wallet_missing"
    /\ UNCHANGED <<users, txs, keys, now, webhookSecret>>
    /\ inflight' = [inflight EXCEPT ![p] = Idle]
    /\ wallets' = wallets \cup {[walletNumber |-> generateWallet, balance |-> 0,
                                  userId |-> ObjectId(h.body.user)]}
    /\ last' = Resp("callback", NoCred, h.body, 200, "token")

\* Wallet.create: the unique index on userId rejects a second wallet of the
\* user, which the handler answers with 500 and no token.
CallbackCreateWallet(p) ==
    LET h == inflight[p] IN
    /\ h.pc = "wallet_missing"
    /\ UNCHANGED <<users, txs, keys, now, webhookSecret>>
    /\ inflight' = [inflight EXCEPT ![p] = Idle]
    /\ IF WalletsOfUser(h.body.user) # {}
       THEN /\ UNCHANGED wallets
            /\ last' = Resp("callback", NoCred, h.body, 500, "database_error")
       ELSE /\ wallets' = wallets \cup {[walletNumber |-> generateWallet, balance |-> 0,
                                          userId |-> ObjectId(h.body.user)]}
            /\ last' = Resp("callback", NoCred, h.body, 200, "token")

\* The sign-in model: two connections run callbacks for two Google
\* accounts in any interleaving; user u1, once a callback has answered it
\* with a token (which is when its wallet exists), deposits, and the
\* provider confirms the deposits.
SignInStart ==
    \E p \in Procs, u \in UserIds, g \in {"ok", "invalid_grant"} : CallbackStart(p, u, g)
SignInSaveUser == \E p \in Procs : CallbackSaveUser(p)
SignInFindWallet == \E p \in Procs : CallbackFindWallet(p)
SignInCreateWallet == \E p \in Procs : CallbackCreateWallet(p)
SignInDeposit ==
    /\ WalletsOfUser("u1") # {}
    /\ Len(txs) < MaxTxs
    /\ Deposit(Bearer("u1"), [amount |-> Num(1)], "ok")
SignInWebhook ==
    \E r \in 1..Len(txs) :
        LET e == ChargeSuccess(r, "success", 1) IN
        WouldReach(e) <= MaxBalance /\ Webhook(Hmac(LiveWebhookSecret, e), e)

NextSignIn ==
    \/ SignInStart \/ SignInSaveUser \/ SignInFindWallet \/ SignInCreateWallet
    \/ SignInDeposit \/ SignInWebhook

SpecSignIn == InitLive /\ [][NextSignIn]_vars

\* ------------------------------------------- concurrent confirmations
\* POST /wallet/paystack/webhook as the steps between its awaits, run by
\* the handler of connection p.  read is <<t, found, balance>>: the index
\* of the Transaction loaded, whether a wallet was loaded, and its balance.
\*
\* The signature is verified and Transaction.findOne is awaited.
WebhookStart(p, signature, event) ==
    LET body == [signature |-> signature, event |-> event]
        t == FindTx(event.data.reference)
    IN
    /\ inflight[p].pc = "idle"
    /\ UNCHANGED <<db, now, webhookSecret>>
    /\ IF webhookSecret # "" /\ webhookSecret # DevPlaceholderSecret
          /\ signature = NoSignature
       THEN /\ UNCHANGED inflight
            /\ last' = Resp("webhook", NoCred, body, 400, "invalid_request")
       ELSE IF webhookSecret # "" /\ webhookSecret # DevPlaceholderSecret
               /\ ~verifyWebhookSignature(event, signature)
       THEN /\ UNCHANGED inflight
            /\ last' = Resp("webhook", NoCred, body, 400, "invalid_signature")
       ELSE IF event.event # "charge.success" \/ t = 0
       THEN /\ UNCHANGED inflight
            /\ last' = Resp("webhook", NoCred, body, 200, "ok")
       ELSE /\ inflight' = [inflight EXCEPT ![p] =
                              Suspended("tx_read", NoCred, body, <<t, FALSE, 0>>)]
            /\ last' = Resp("webhook", NoCred, body, 0, "")

\* Wallet.findOne for the payer of the Transaction.
WebhookFindWallet(p) ==
    LET h == inflight[p]
        found == WalletsOfUser(txs[h.read[1]].userId)
    IN
    /\ h.pc = "tx_read"
    /\ UNCHANGED <<db, now, webhookSecret>>
    /\ last' = Resp("webhook", NoCred, h.body, 0, "")
    /\ inflight' = [inflight EXCEPT ![p] =
                      IF found = {}
                      THEN [h EXCEPT !.pc = "wallet_saved"]
                      ELSE [h EXCEPT !.pc = "wallet_read",
                                     !.read = <<h.read[1], TRUE,
                                                (CHOOSE w \in found : TRUE).balance>>]]

\* A credit applied to the balance that the store holds when the write
\* arrives (an atomic increment).
WebhookSaveWalletIncrements(p) ==
    LET h == inflight[p]
        found == WalletsOfUser(txs[h.read[1]].userId)
        wallet == CHOOSE w \in found : TRUE
        credited == [wallet EXCEPT !.balance = @ + h.body.event.data.amount]
    IN
    /\ h.pc = "wallet_read"
    /\ UNCHANGED <<users, txs, keys, now, webhookSecret>>
    /\ wallets' = SaveWallet(wallets, credited)
    /\ inflight' = [inflight EXCEPT ![p].pc = "wallet_saved"]
    /\ last' = Resp("webhook", NoCred, h.body, 0, "")

\* wallet.balance = wallet.balance + amount on the document loaded, then
\* wallet.save(): the balance computed from the one read is written.
WebhookSaveWallet(p) ==
    LET h == inflight[p]
        found == WalletsOfUser(txs[h.read[1]].userId)
        wallet == CHOOSE w \in found : TRUE
        credited == [wallet EXCEPT !.balance = h.read[3] + h.body.event.data.amount]
    IN
    /\ h.pc = "wallet_read"
    /\ UNCHANGED <<users, txs, keys, now, webhookSecret>>
    /\ IF credited.balance < 0
       THEN /\ UNCHANGED wallets
            /\ inflight' = [inflight EXCEPT ![p] = Idle]
            /\ last' = Resp("webhook", NoCred, h.body, 500, "internal_error")
       ELSE /\ wallets' = SaveWallet(wallets, credited)
            /\ inflight' = [inflight EXCEPT ![p].pc = "wallet_saved"]
            /\ last' = Resp("webhook", NoCred, h.body, 0, "")

\* The Transaction takes the event's status, amount and payment time and
\* is saved; the provider is answered.
WebhookSaveTx(p) ==
    LET h == inflight[p]
        d == h.body.event.data
        t == h.read[1]
    IN
    /\ h.pc = "wallet_saved"
    /\ UNCHANGED <<users, wallets, keys, now, webhookSecret>>
    /\ inflight' = [inflight EXCEPT ![p] = Idle]
    /\ IF d.amount < 0
       THEN /\ UNCHANGED txs
            /\ last' = Resp("webhook", NoCred, h.body, 500, "internal_error")
       ELSE /\ txs' = [txs EXCEPT ![t] =
                         [@ EXCEPT !.status = IF d.status = "success"
                                              THEN "success" ELSE "failed",
                                   !.amount = d.amount,
                                   !.paidAt = IF d.paid_at # 0 THEN d.paid_at ELSE @]]
            /\ last' = Resp("webhook", NoCred, h.body, 200, "ok")

\* The confirmation model: user u1 signs in and deposits; the provider
\* delivers signed charge.success events for the known references, and one
\* unsigned, over two connections whose handlers interleave.
InFlight == {p \in Procs : inflight[p].pc # "idle"}
ConfirmSignIn == GoogleCallback("u1", "ok")
ConfirmDeposit ==
    \E c \in PayerCreds : Len(txs) < MaxTxs /\ Deposit(c, [amount |-> Num(1)], "ok")
ConfirmStart ==
    \E p \in Procs, r \in 1..Len(txs), signed \in BOOLEAN :
        LET e == ChargeSuccess(r, "success", 1) IN
        /\ WouldReach(e) + Cardinality(InFlight) <= MaxBalance
        /\ WebhookStart(p, IF signed THEN Hmac(LiveWebhookSecret, e) ELSE NoSignature, e)
ConfirmFindWallet == \E p \in Procs : WebhookFindWallet(p)
ConfirmSaveWallet == \E p \in Procs : WebhookSaveWallet(p)
ConfirmSaveTx == \E p \in Procs : WebhookSaveTx(p)

NextConfirm ==
    \/ ConfirmSignIn \/ ConfirmDeposit \/ ConfirmStart
    \/ ConfirmFindWallet \/ ConfirmSaveWallet \/ ConfirmSaveTx

SpecConfirm == InitLive /\ [][NextConfirm]_vars

\* ------------------------------------------------- concurrent rollovers
\* POST /keys/rollover as the steps between its awaits, run by the handler
\* of connection p.  read is <<i>>: the index of the key that findOne
\* returned.
\*
\* The caller is authenticated, the body tested, and Key.findOne awaited;
\* a key that is missing, revoked or not yet expired ends the request.
RolloverStart(p, c, body) ==
    LET a == authenticate(c)
        h == Sha256(body.expired_key_id)
        found == {i \in 1..Len(keys) :
                    keys[i].userId = a.id /\ keys[i].keyHash = h /\ ~keys[i].isRevoked}
        i == CHOOSE j \in found : TRUE
    IN
    /\ inflight[p].pc = "idle"
    /\ UNCHANGED <<db, now, webhookSecret>>
    /\ IF ~a.ok
       THEN /\ UNCHANGED inflight
            /\ last' = Resp("keys/rollover", c, body, 401, "unauthorized")
       ELSE IF body.expired_key_id = NoApiKey \/ body.expiry = <<>>
       THEN /\ UNCHANGED inflight
            /\ last' = Resp("keys/rollover", c, body, 400, "bad_request")
       ELSE IF found = {} \/ keys[i].expiresAt > now
       THEN /\ UNCHANGED inflight
            /\ last' = Resp("keys/rollover", c, body, 500, "internal_server_error")
       ELSE /\ inflight' = [inflight EXCEPT ![p] = Suspended("key_found", c, body, <<i>>)]
            /\ last' = Resp("keys/rollover", c, body, 0, "")

\* existingKey.isRevoked = true; existingKey.save().
RolloverSaveKey(p) ==
    LET h == inflight[p] IN
    /\ h.pc = "key_found"
    /\ UNCHANGED <<users, wallets, txs, now, webhookSecret>>
    /\ keys' = [keys EXCEPT ![h.read[1]].isRevoked = TRUE]
    /\ inflight' = [inflight EXCEPT ![p].pc = "key_revoked"]
    /\ last' = Resp("keys/rollover", h.cred, h.body, 0, "")

\* createKey with the owner, name and permissions of the key loaded.
RolloverCreateKey(p) ==
    LET h == inflight[p]
        old == keys[h.read[1]]
        r == createKey(keys, old.userId, old.name, old.permissions, h.body.expiry)
    IN
    /\ h.pc = "key_revoked"
    /\ UNCHANGED <<users, wallets, txs, now, webhookSecret>>
    /\ keys' = r.keys
    /\ inflight' = [inflight EXCEPT ![p] = Idle]
    /\ last' = IF r.ok
               THEN Resp("keys/rollover", h.cred, h.body, 200, "rolled_over")
               ELSE Resp("keys/rollover", h.cred, h.body, 500, "internal_server_error")

\* The rollover model: two users sign in and u1 creates one key; every
\* other key comes from a rollover.  Two connections present the secrets
\* of the keys, and an unknown one, with an expiry that is well formed or
\* not, to POST /keys/rollover as the clock advances.
RollTick == now < MaxKeysNow /\ Tick
RollSignIn == \E u \in UserIds : GoogleCallback(u, "ok")
RollCreate ==
    \E c \in CreatorCreds : Len(keys) = 0 /\ KeysCreate(c, ReadOnlyKey)
RollStart ==
    \E p \in Procs, c \in KeyCreds, s \in Presented(keys),
       e \in {<<"1", "H">>, <<"1", "X">>} :
        /\ Len(keys) + Cardinality(InFlight) < MaxKeys
        /\ RolloverStart(p, c, [expired_key_id |-> s, expiry |-> e])
RollSaveKey == \E p \in Procs : RolloverSaveKey(p)
RollCreateKey == \E p \in Procs : RolloverCreateKey(p)

NextRoll ==
    \/ RollTick \/ RollSignIn \/ RollCreate
    \/ RollStart \/ RollSaveKey \/ RollCreateKey

SpecRoll == InitDev /\ [][NextRoll]_vars

\* ====================================================================== claims
\* What a claim says of the request handled by a step is read from last'
\* (the request and its response) and from the state before the step.

\* The caller of the request in last', as the state before the step
\* identifies it: the owner of the token, or of the key presented.
Caller(r) ==
    IF r.cred.token # NoToken THEN r.cred.token.id
    ELSE IF \E i \in 1..Len(keys) : keys[i].keyHash = Sha256(r.cred.apiKey)
    THEN keys[CHOOSE i \in 1..Len(keys) : keys[i].keyHash = Sha256(r.cred.apiKey)].userId
    ELSE ""
\* The request passed the auth gate.
Admitted(r) == r.status # 401
BalanceOf(ws, u) ==
    IF \E w \in ws : toString(w.userId) = u
    THEN (CHOOSE w \in ws : toString(w.userId) = u).balance
    ELSE 0
HasWallet(ws, u) == \E w \in ws : toString(w.userId) = u
OwnerOfNumber(ws, n) ==
    IF \E w \in ws : w.walletNumber = n
    THEN toString((CHOOSE w \in ws : w.walletNumber = n).userId)
    ELSE ""
\* The keys of user u that are not revoked and expire after now.
ActiveKeysOf(u) ==
    {i \in 1..Len(keys) : keys[i].userId = u /\ ~keys[i].isRevoked /\ keys[i].expiresAt > now}

\* An accepted charge.success event for a known reference whose payer has a
\* wallet.
IsConfirmation(r) ==
    /\ r.op = "webhook" /\ r.status = 200
    /\ r.body.event.event = "charge.success"
    /\ r.body.event.data.status = "success"
    /\ r.body.event.data.amount > 0
    /\ FindTx(r.body.event.data.reference) # 0

\* C1: the charge.success event of a known reference credits the payer's
\* wallet once however often it is delivered: the first delivery adds the
\* event's amount, and a replay of the event just processed adds nothing.
C1_ConfirmationCreditsOnce ==
    [][IsConfirmation(last') =>
          LET payer == txs[FindTx(last'.body.event.data.reference)].userId
              credit == BalanceOf(wallets', payer) - BalanceOf(wallets, payer)
          IN IF last = last' THEN credit = 0
             ELSE txs[FindTx(last'.body.event.data.reference)].status = "pending"
                    => credit = last'.body.event.data.amount]_vars

\* A transfer request by a caller that passed the auth gate and owns a
\* wallet, with a numeric amount.
IsTransfer(r) ==
    /\ r.op = "transfer" /\ Admitted(r)
    /\ HasWallet(wallets, Caller(r))
    /\ r.body.amount.type = "number"

\* C2: a transfer of an amount within the caller's balance to the wallet of
\* another user succeeds, debits the caller, credits the recipient and adds
\* one transfer Transaction naming both.
C2_TransferMovesFunds ==
    [][(/\ IsTransfer(last')
        /\ last'.body.amount.v > 0
        /\ BalanceOf(wallets, Caller(last')) >= last'.body.amount.v
        /\ OwnerOfNumber(wallets, last'.body.wallet_number) \notin {"", Caller(last')})
       => LET from == Caller(last')
              to == OwnerOfNumber(wallets, last'.body.wallet_number)
              a == last'.body.amount.v
          IN /\ last'.status = 200 /\ last'.code = "Transfer completed"
             /\ BalanceOf(wallets', from) = BalanceOf(wallets, from) - a
             /\ BalanceOf(wallets', to) = BalanceOf(wallets, to) + a
             /\ Len(txs') = Len(txs) + 1
             /\ txs'[Len(txs')].type = "transfer"
             /\ txs'[Len(txs')].status = "success"
             /\ txs'[Len(txs')].senderId = from
             /\ txs'[Len(txs')].receiverId = to]_vars

\* C7: a transfer of more than the caller's balance changes no wallet and
\* adds no Transaction.
C7_OverdraftChangesNothing ==
    [][(IsTransfer(last') /\ last'.body.amount.v > BalanceOf(wallets, Caller(last')))
       => wallets' = wallets /\ txs' = txs]_vars

\* C7 happens: a user holding funds asked to transfer more than it holds to
\* the wallet of another user.
C7_Witness ==
    /\ last.op = "transfer" /\ last.status = 200
    /\ BalanceOf(wallets, Caller(last)) > 0
    /\ last.body.amount.v > BalanceOf(wallets, Caller(last))
    /\ OwnerOfNumber(wallets, last.body.wallet_number) \notin {"", Caller(last)}

\* C8: a transfer of more than the caller's balance to the wallet of another
\* user is answered with the insufficient-funds result.
C8_OverdraftIsInsufficientFunds ==
    [][(/\ IsTransfer(last')
        /\ last'.body.amount.v > BalanceOf(wallets, Caller(last'))
        /\ OwnerOfNumber(wallets, last'.body.wallet_number) \notin {"", Caller(last')})
       => /\ last'.status = 200
          /\ last'.code = "Insufficient Balance"]_vars

\* C9: a transfer to a wallet number that no wallet has leaves the sender's
\* balance as it was and adds no Transaction.
C9_UnknownRecipientChangesNothing ==
    [][(IsTransfer(last') /\ OwnerOfNumber(wallets, last'.body.wallet_number) = "")
       => /\ BalanceOf(wallets', Caller(last')) = BalanceOf(wallets, Caller(last'))
          /\ txs' = txs]_vars

\* C9 happens: a user that could afford the amount asked to transfer it to
\* a wallet number that no wallet has.
C9_Witness ==
    /\ last.op = "transfer" /\ last.status = 200
    /\ last.body.amount.v > 0
    /\ BalanceOf(wallets, Caller(last)) >= last.body.amount.v
    /\ OwnerOfNumber(wallets, last.body.wallet_number) = ""

\* C4: no user ever owns more than 5 keys that are not revoked and not
\* expired.
C4_AtMostFiveActiveKeys ==
    \A u \in UserIds : Cardinality(ActiveKeysOf(u)) <= maxKeysAllowed

\* C10: a create request by a user that owns 5 (or more) active keys
\* creates no key and leaves every key as it was; when it names a name,
\* permissions and an expiry, it is answered 403 limit_exceeded.
C10_SixthKeyRefused ==
    [][(/\ last'.op = "keys/create" /\ Admitted(last')
        /\ Cardinality(ActiveKeysOf(Caller(last'))) >= maxKeysAllowed)
       => /\ keys' = keys
          /\ (last'.body.name # "" /\ last'.body.hasPermissions
                /\ last'.body.expiry # <<>>)
               => (last'.status = 403 /\ last'.code = "limit_exceeded")]_vars

\* C10 happens: a create request was refused for the limit while its user
\* owned exactly 5 active keys.
C10_Witness ==
    /\ last.op = "keys/create" /\ last.code = "limit_exceeded"
    /\ Cardinality(ActiveKeysOf(Caller(last))) = maxKeysAllowed

\* The permission an endpoint is documented to require of an API key.
RequiredPermission(op) ==
    CASE op = "deposit" -> "deposit"
      [] op = "transfer" -> "transfer"
      [] op \in {"balance", "transactions", "status"} -> "read"
      [] OTHER -> ""
\* The request carries an x-api-key header and no bearer token.
ByApiKeyOnly(r) == r.cred.token = NoToken /\ r.cred.apiKey # NoApiKey
\* The key whose secret the request presents, 0 when there is none.
PresentedKey(r) == FindKeyByHash(Sha256(r.cred.apiKey))

\* C3: a request authenticated by an API key that lacks the permission its
\* endpoint requires is answered 403 and changes nothing.
C3_MissingPermissionIsForbidden ==
    [][(/\ ByApiKeyOnly(last') /\ Admitted(last')
        /\ RequiredPermission(last'.op) # ""
        /\ PresentedKey(last') # 0
        /\ RequiredPermission(last'.op) \notin keys[PresentedKey(last')].permissions)
       => last'.status = 403 /\ UNCHANGED db]_vars

\* C5: a request that presents, without a bearer token, a key that is
\* revoked or whose expiresAt the clock has passed is answered 401 and no
\* handler runs; a key stays revoked, keeps its expiresAt, and the clock
\* does not go back.
C5_DeadKeyIsRejected ==
    [][/\ (/\ ByApiKeyOnly(last') /\ PresentedKey(last') # 0
           /\ (keys[PresentedKey(last')].isRevoked
                 \/ keys[PresentedKey(last')].expiresAt < now))
          => last'.status = 401 /\ UNCHANGED db
       /\ \A i \in 1..Len(keys) :
             /\ i <= Len(keys')
             /\ keys[i].isRevoked => keys'[i].isRevoked
             /\ keys'[i].expiresAt = keys[i].expiresAt
       /\ now' >= now]_vars

\* C5 happens: a request that presented a revoked key was answered 401.
C5_Witness ==
    /\ ByApiKeyOnly(last) /\ last.status = 401
    /\ PresentedKey(last) # 0
    /\ keys[PresentedKey(last)].isRevoked
    /\ keys[PresentedKey(last)].expiresAt > now

\* C6: a request to create, roll over or revoke a key that carries only an
\* x-api-key header is rejected and leaves the keys as they were.
C6_KeyRoutesNeedBearer ==
    [][(last'.op \in {"keys/create", "keys/rollover", "keys/revoke"}
          /\ ByApiKeyOnly(last'))
       => last'.status = 401 /\ keys' = keys]_vars

\* A rollover request that passed the auth gate and presents a key of the
\* caller that is not revoked; RolledKey is that key's index.
RolledKey(r) == FindKeyByHash(Sha256(r.body.expired_key_id))
IsRollover(r) ==
    /\ r.op = "keys/rollover" /\ Admitted(r)
    /\ r.body.expired_key_id # NoApiKey
    /\ RolledKey(r) # 0
    /\ keys[RolledKey(r)].userId = Caller(r)
    /\ ~keys[RolledKey(r)].isRevoked

\* C11: a rollover of a caller's non-revoked key whose expiresAt is after
\* now fails and leaves every key as it was: the key stays non-revoked and
\* no key is created.
C11_EarlyRolloverFails ==
    [][(IsRollover(last') /\ keys[RolledKey(last')].expiresAt > now)
       => last'.status >= 400 /\ keys' = keys]_vars

\* C11 happens: a rollover of the caller's live key, naming a well-formed
\* expiry, was refused.
C11_Witness ==
    /\ last.op = "keys/rollover" /\ last.status = 500
    /\ last.body.expiry = <<"1", "H">>
    /\ last.body.expired_key_id # NoApiKey
    /\ RolledKey(last) # 0
    /\ keys[RolledKey(last)].userId = Caller(last)
    /\ ~keys[RolledKey(last)].isRevoked
    /\ keys[RolledKey(last)].expiresAt > now

\* The hours that an expiry of one digit and a unit stands for, 0 - 1 when
\* the text is no such expiry.
ExpiryUnitHours == [H |-> 1, D |-> 24, M |-> 30 * 24, Y |-> 365 * 24]
ExpiryHours(e) ==
    IF Len(e) = 2 /\ IsDigit(e[1]) /\ e[2] \in DOMAIN ExpiryUnitHours
    THEN DigitValue(e[1]) * ExpiryUnitHours[e[2]]
    ELSE 0 - 1

\* C12: a rollover of a caller's non-revoked key whose expiresAt is not
\* after now, naming a well-formed expiry, succeeds: the old key becomes
\* revoked, every other key stays as it was, and one key is added with the
\* old key's owner, name and permissions, not revoked, expiring at now plus
\* the new expiry.
C12_RolloverReplacesKey ==
    [][(/\ IsRollover(last')
        /\ keys[RolledKey(last')].expiresAt <= now
        /\ ExpiryHours(last'.body.expiry) >= 0)
       => LET k == RolledKey(last')
              n == Len(keys) + 1
          IN /\ last'.status = 200
             /\ Len(keys') = n
             /\ \A i \in 1..Len(keys) :
                   keys'[i] = IF i = k THEN [keys[i] EXCEPT !.isRevoked = TRUE]
                              ELSE keys[i]
             /\ keys'[n].userId = Caller(last')
             /\ keys'[n].name = keys[k].name
             /\ keys'[n].permissions = keys[k].permissions
             /\ ~keys'[n].isRevoked
             /\ keys'[n].expiresAt = now + ExpiryHours(last'.body.expiry)
             /\ \A i \in 1..Len(keys) : keys'[n].keyHash # keys[i].keyHash]_vars

\* C12 happens: a rollover succeeded for a key whose expiresAt was before
\* now.
C12_Witness ==
    /\ last.op = "keys/rollover" /\ last.status = 200
    /\ RolledKey(last) # 0
    /\ keys[RolledKey(last)].isRevoked
    /\ keys[RolledKey(last)].expiresAt < now
    /\ ~keys[Len(keys)].isRevoked

\* A webhook request whose event the handler took up: no secret is
\* configured, or the placeholder is, or the signature is the HMAC of the
\* payload under the configured secret.
IsProcessed(r) ==
    /\ r.op = "webhook"
    /\ \/ webhookSecret \in {"", DevPlaceholderSecret}
       \/ r.body.signature = Hmac(webhookSecret, r.body.event)
\* Such a request with a charge.success event for a known reference.
IsCharge(r) ==
    /\ IsProcessed(r)
    /\ r.body.event.event = "charge.success"
    /\ FindTx(r.body.event.data.reference) # 0

\* C13: a charge.success event for a known reference whose data status is
\* not "success" leaves every wallet as it was and marks the Transaction
\* failed.
C13_OnlySuccessCredits ==
    [][(/\ IsCharge(last')
        /\ last'.body.event.data.status # "success"
        /\ last'.body.event.data.amount > 0)
       => /\ wallets' = wallets
          /\ txs'[FindTx(last'.body.event.data.reference)].status = "failed"]_vars

\* C14: a processed webhook event whose reference matches no Transaction
\* changes no wallet and no Transaction and is answered 200.
C14_UnknownReferenceIsNoOp ==
    [][(/\ IsProcessed(last')
        /\ FindTx(last'.body.event.data.reference) = 0)
       => /\ wallets' = wallets /\ txs' = txs
          /\ last'.status = 200 /\ last'.code = "ok"]_vars

\* C14 happens: a signed charge.success event naming an unknown reference
\* arrived while a deposit was pending and its payer had a wallet.
C14_Witness ==
    /\ last.op = "webhook" /\ last.status = 200
    /\ last.body.signature = Hmac(webhookSecret, last.body.event)
    /\ last.body.event.event = "charge.success"
    /\ FindTx(last.body.event.data.reference) = 0
    /\ \E t \in 1..Len(txs) : txs[t].status = "pending" /\ HasWallet(wallets, txs[t].userId)

\* C15: a step changes the status of a Transaction only when that status is
\* pending.
C15_StatusLeavesPendingOnly ==
    [][\A t \in 1..Len(txs) :
          txs'[t].status # txs[t].status => txs[t].status = "pending"]_vars

\* C16: with a webhook secret configured, a webhook request whose signature
\* is missing or is not the HMAC-SHA512 of the payload under that secret is
\* answered 400 and writes no wallet and no Transaction.
C16_UnsignedIsRejected ==
    [][(/\ last'.op = "webhook"
        /\ webhookSecret # ""
        /\ last'.body.signature # Hmac(webhookSecret, last'.body.event))
       => /\ last'.status = 400
          /\ wallets' = wallets /\ txs' = txs]_vars

\* C17: a status check that passed the auth gate is answered 404 when no
\* Transaction has the reference and 403 when the Transaction's payer is not
\* the caller; in both cases the provider is not queried, no Transaction
\* changes and nothing of a Transaction is returned.
C17_StatusOfOthersIsRefused ==
    [][(last'.op = "status" /\ Admitted(last'))
       => LET t == FindTx(last'.body.reference) IN
          /\ t = 0 => last'.status = 404
          /\ (t # 0 /\ txs[t].userId # Caller(last')) => last'.status = 403
          /\ (t = 0 \/ txs[t].userId # Caller(last'))
                => /\ ~last'.queried
                   /\ txs' = txs
                   /\ last'.data = <<>>]_vars

\* C17 happens: a signed-in user asked for the status of another user's
\* pending deposit and was answered 403.
C17_Witness ==
    /\ last.op = "status" /\ last.status = 403
    /\ FindTx(last.body.reference) # 0
    /\ txs[FindTx(last.body.reference)].userId # Caller(last)
    /\ txs[FindTx(last.body.reference)].status = "pending"

\* The amount of a deposit request is a positive number.
IsPositiveNumber(amount) == amount.type = "number" /\ amount.v > 0

\* C18: a deposit request that passed the auth gate is answered 400 when its
\* amount is missing, no number, zero or negative, and 402 when the
\* provider fails to initialize it; in both cases no Transaction is added or
\* changed and no wallet changes.
C18_RefusedDepositWritesNothing ==
    [][(last'.op = "deposit" /\ Admitted(last'))
       => /\ ~IsPositiveNumber(last'.body.amount)
               => last'.status = 400 /\ ~last'.queried
          /\ (IsPositiveNumber(last'.body.amount) /\ last'.provider # "ok")
               => last'.status = 402 /\ last'.queried
          /\ (~IsPositiveNumber(last'.body.amount) \/ last'.provider # "ok")
               => txs' = txs /\ wallets' = wallets]_vars

\* C18 happens: a deposit of a positive amount was answered 402 after the
\* provider failed.
C18_Witness ==
    /\ last.op = "deposit" /\ last.status = 402
    /\ IsPositiveNumber(last.body.amount)
    /\ last.queried /\ last.provider = "fail"

\* C19: the balance of every wallet is at least 0.
C19_BalancesNonNegative == \A w \in wallets : w.balance >= 0

\* C19 happens: a confirmation that would take the payer's balance below 0
\* was turned away.
C19_Witness ==
    /\ last.op = "webhook" /\ last.status = 500
    /\ FindTx(last.body.event.data.reference) # 0
    /\ BalanceOf(wallets, txs[FindTx(last.body.event.data.reference)].userId)
         + last.body.event.data.amount < 0

\* C20: a revoke request that passed the auth gate and names a secret marks
\* the caller's non-revoked key of that secret revoked, leaves every other
\* key as it was and returns the key's name; when the caller has no such
\* key, or the key is revoked already, it is answered 404 and no key
\* changes.
C20_RevokeOnceThenNotFound ==
    [][(last'.op = "keys/revoke" /\ Admitted(last') /\ last'.body.api_key # NoApiKey)
       => LET k == FindKeyByHash(Sha256(last'.body.api_key)) IN
          IF k # 0 /\ keys[k].userId = Caller(last') /\ ~keys[k].isRevoked
          THEN /\ last'.status = 200
               /\ last'.data = <<keys[k].name>>
               /\ keys' = [keys EXCEPT ![k].isRevoked = TRUE]
          ELSE /\ last'.status = 404
               /\ keys' = keys]_vars

\* C20 happens: the owner of a revoked key asked to revoke it again and was
\* answered 404.
C20_Witness ==
    /\ last.op = "keys/revoke" /\ last.status = 404
    /\ FindKeyByHash(Sha256(last.body.api_key)) # 0
    /\ keys[FindKeyByHash(Sha256(last.body.api_key))].userId = Caller(last)
    /\ keys[FindKeyByHash(Sha256(last.body.api_key))].isRevoked
    /\ keys[FindKeyByHash(Sha256(last.body.api_key))].expiresAt > now

C23_SelfTransferIsRejected ==
    [][(/\ last'.op = "transfer" /\ Admitted(last')
        /\ HasWallet(wallets, Caller(last'))
        /\ OwnerOfNumber(wallets, last'.body.wallet_number) = Caller(last'))
       => /\ last'.status = 200
          /\ last'.code = "You cannot transfer to yourself"
          /\ wallets' = wallets /\ txs' = txs]_vars
\* C23 happens: a user holding funds asked to transfer an amount it could
\* afford to its own wallet number and was refused.
C23_Witness ==
    /\ last.op = "transfer" /\ last.status = 200
    /\ last.code = "You cannot transfer to yourself"
    /\ OwnerOfNumber(wallets, last.body.wallet_number) = Caller(last)
    /\ last.body.amount.v > 0
    /\ BalanceOf(wallets, Caller(last)) >= last.body.amount.v

\* ---------------------------------------------------------------- C25
\* The status check of the caller's own Transaction that is pending or
\* asked to be refreshed.
IsRefresh(r) ==
    /\ r.op = "status" /\ Admitted(r)
    /\ FindTx(r.body.reference) # 0
    /\ txs[FindTx(r.body.reference)].userId = Caller(r)
    /\ (r.body.refresh \/ txs[FindTx(r.body.reference)].status = "pending")
\* C25: the status check of a pending or force-refreshed Transaction asks
\* the provider; when the verify call fails, no Transaction changes and the
\* caller is answered 200 with the stored reference, status and amount;
\* when it succeeds, the Transaction's status and amount become the
\* provider's, the other Transactions stay as they were, and the caller is
\* answered 200 with the provider's status and amount.
C25_ProviderFailureKeepsStored ==
    [][IsRefresh(last')
       => LET t == FindTx(last'.body.reference)
              answer == last'.provider
          IN /\ last'.queried
             /\ last'.status = 200
             /\ IF answer.ok
                THEN /\ txs'[t].status = answer.status
                     /\ txs'[t].amount = answer.amount
                     /\ \A o \in 1..Len(txs) : o # t => txs'[o] = txs[o]
                     /\ last'.data = <<txs[t].reference, answer.status, answer.amount>>
                ELSE /\ txs' = txs
                     /\ last'.data = <<txs[t].reference, txs[t].status, txs[t].amount>>]_vars
\* C25 happens: the refresh of a Transaction that an earlier check had set
\* to success with the provider's amount met a failing verify call.
C25_Witness ==
    /\ last.op = "status" /\ last.status = 200
    /\ last.body.refresh /\ last.queried /\ ~last.provider.ok
    /\ FindTx(last.body.reference) # 0
    /\ txs[FindTx(last.body.reference)].status = "success"
    /\ txs[FindTx(last.body.reference)].amount = 2
    /\ txs[FindTx(last.body.reference)].paidAt = 2

\* ---------------------------------------------------------------- C26
\* What Transaction t adds to the balance of user u: the amount of u's
\* successful deposit or of a successful transfer u received, minus the
\* amount of a successful transfer u sent.
LedgerEntry(t, u) ==
    IF t.status # "success" THEN 0
    ELSE IF t.type = "deposit" THEN (IF t.userId = u THEN t.amount ELSE 0)
    ELSE (IF t.receiverId = u THEN t.amount ELSE 0)
         - (IF t.senderId = u THEN t.amount ELSE 0)
RECURSIVE LedgerSum(_, _)
LedgerSum(u, n) == IF n = 0 THEN 0 ELSE LedgerSum(u, n - 1) + LedgerEntry(txs[n], u)
\* C26: each wallet's balance is the sum of its owner's successful deposits
\* plus the successful transfers received minus those sent; a deposit that
\* the status check has set to success has been credited.
C26_BalanceIsLedgerSum ==
    \A w \in wallets : w.balance = LedgerSum(toString(w.userId), Len(txs))

\* ---------------------------------------------------------------- C27
\* C27: a rollover request that is answered with an error leaves every key
\* as it was: the presented key keeps its revoked flag and no key is
\* created.
C27_FailedRolloverChangesNothing ==
    [][(last'.op = "keys/rollover" /\ last'.status >= 400) => keys' = keys]_vars

\* ---------------------------------------------------------------- C29
\* The auth gate accepts the secret of key i; a rollover of key i by its
\* owner is refused.
GateAccepts(i) == authenticate(ApiKey(Secret(i))).ok
RolloverRefuses(i) == ~rolloverKey(keys[i].userId, Secret(i), <<"1", "H">>).ok
\* C29: at every clock value the three expiry checks agree on every key
\* that is not revoked: the auth gate accepts the key exactly when rollover
\* refuses it as not yet expired, and countActiveKeys counts for each user
\* exactly the non-revoked keys that the auth gate accepts.
C29_ExpiryChecksAgree ==
    /\ \A i \in 1..Len(keys) : ~keys[i].isRevoked => (GateAccepts(i) <=> RolloverRefuses(i))
    /\ \A u \in UserIds :
          countActiveKeys(u)
            = Cardinality({i \in 1..Len(keys) :
                             keys[i].userId = u /\ ~keys[i].isRevoked /\ GateAccepts(i)})

\* ---------------------------------------------------------------- C30
\* The request carries both a bearer token and an x-api-key header.
ByBoth(r) == r.cred.token # NoToken /\ r.cred.apiKey # NoApiKey
\* C30: when a request carries both headers the bearer token alone decides:
\* with a token that was issued and has not expired the request is admitted
\* as the token's user in jwt mode whatever the key is, and with any other
\* token it is answered 401 and changes nothing, whatever the key is.
C30_BearerAloneDecides ==
    [][ByBoth(last')
       => IF last'.cred.token \in IssuedTokens
          THEN /\ Admitted(last')
               /\ authenticate(last'.cred)
                     = [ok |-> TRUE, id |-> last'.cred.token.id,
                        authType |-> "jwt", key |-> 0]
               /\ last'.op = "balance"
                     => /\ last'.status = 200
                        /\ last'.data = <<BalanceOf(wallets, last'.cred.token.id)>>
          ELSE last'.status = 401 /\ UNCHANGED db]_vars
\* C30 happens: a request with a forged or expired token and the secret of
\* a key that is neither revoked nor expired was answered 401.
C30_Witness ==
    /\ ByBoth(last) /\ last.status = 401
    /\ last.cred.token \notin IssuedTokens
    /\ PresentedKey(last) # 0
    /\ ~keys[PresentedKey(last)].isRevoked
    /\ keys[PresentedKey(last)].expiresAt > now

\* ---------------------------------------------------------------- C22
\* The wallets in ws that user u owns.
WalletsIn(ws, u) == {w \in ws : toString(w.userId) = u}
\* C22: under every interleaving of sign-in callbacks no user ever owns two
\* wallets, a user that a callback answers with a token owns exactly one,
\* a wallet that exists stays with its owner and number, and the steps of
\* a callback leave every existing wallet (number and balance) as it was.
C22_OneWalletPerUser ==
    [][/\ \A u \in UserIds : Cardinality(WalletsIn(wallets', u)) <= 1
       /\ (last'.op = "callback" /\ last'.status = 200)
             => Cardinality(WalletsIn(wallets', last'.body.user)) = 1
       /\ \A w \in wallets :
             \E x \in wallets' : x.userId = w.userId /\ x.walletNumber = w.walletNumber
       /\ last'.op = "callback" => wallets \subseteq wallets']_vars
\* C22 happens: a callback that found no wallet is about to create one
\* while another callback for the same account has just created it and
\* answered with a token.
C22_Witness ==
    \E p \in Procs :
        /\ inflight[p].pc = "wallet_missing"
        /\ \E w \in WalletsIn(wallets, inflight[p].body.user) : TRUE
        /\ last.op = "callback" /\ last.status = 200
        /\ last.body.user = inflight[p].body.user

\* ---------------------------------------------------------------- C24
\* C24: a deposit confirmation reads the payer's balance and writes the new
\* balance back in separate steps: the balance that its save stores is the
\* balance it read plus the event's amount, whatever the wallet holds by
\* then, so that a credit saved in between is lost.
C24_SaveWritesBalanceRead ==
    [][\A p \in Procs :
          (inflight[p].pc = "wallet_read" /\ inflight'[p].pc = "wallet_saved")
            => BalanceOf(wallets', txs[inflight[p].read[1]].userId)
                 = inflight[p].read[3] + inflight[p].body.event.data.amount]_vars
\* C24 happens: two confirmations of 1 for two references of the same payer
\* have both been handled, both Transactions are success, and the payer's
\* balance is 1.
C24_Witness ==
    /\ InFlight = {}
    /\ Len(txs) = 2
    /\ \A t \in 1..2 : txs[t].status = "success" /\ txs[t].amount = 1
    /\ txs[1].userId = txs[2].userId
    /\ BalanceOf(wallets, txs[1].userId) = 1

\* ---------------------------------------------------------------- C28
\* C28: an expired key that is not revoked yields at most one successor,
\* whether the rollovers that present it run one after the other or
\* concurrently.  In the rollover model one key is created and every other
\* key is the successor that a rollover made of a key it revoked, so the
\* keys form a chain and at most one key is not revoked at any time.
C28_AtMostOneSuccessor ==
    Cardinality({i \in 1..Len(keys) : ~keys[i].isRevoked}) <= 1

====
